---- MODULE Spec2Model ----
(***************************************************************************)
(* Water-alert bot: the Playwright fetch engine (app/base_scraper.py),     *)
(* the water scraper and its result cache (app/services/water_scraper.py), *)
(* the Redis dedup store (app/services/redis_service.py), the subscriber   *)
(* registry (app/repositories/user_repository.py) and the alert cycle      *)
(* (app/services/bot_service.py).                                          *)
(*                                                                         *)
(* Strings whose content the code inspects (exception texts, URLs, record  *)
(* titles, locations) are sequences of one-character strings, so that      *)
(* Python's `in` on strings is a real substring test.                      *)
(***************************************************************************)
EXTENDS Integers, Sequences, FiniteSets, TLC

VARIABLES
    req,            \* the last BaseScraper._make_request call: inputs and outcome
    browser,        \* BaseScraper._playwright/_browser/_context/_page of the instance
    now,            \* datetime.now(), in seconds
    cache,          \* BaseScraper.cache of the scraper instance: key -> entry
    cache_timeout,  \* BaseScraper.cache_timeout of the scraper instance
    wrote,          \* history: key -> time of the last assignment to cache[key]
    gd,             \* the last WaterScraper.get_data call on the instance
    fb,             \* the last BaseScraper._handle_scraping_failure call
    base_url,       \* BaseScraper.base_url (settings.BASE_URL)
    op,             \* history: the operation on the scraper instance that ran last
    hash_seed,      \* the salt of str hashes of the running process
    users,          \* the users table: chat_id -> row
    bot,            \* TelegramService._bot is set
    redis_client,   \* RedisService.redis_client is set
    store,          \* Redis: chat_id -> the set at key sent_alerts:{chat_id}
    cycle,          \* the last BotService.check_and_send_alerts run
    rd,             \* the last direct calls of RedisService, and their history
    dl,             \* the last direct call of BotService.send_alert_to_user
    ex,             \* the last run of get_data's link loop on one page, and the
                    \* first story_id seen for every (title, message)
    chk,            \* the last /check command: what the origin served and the
                    \* answers of the handler
    tx,             \* the last direct call of UserService.add_user, update_user or
                    \* remove_user: where it raised, what was called on its session
    loop            \* the event loop of the process: the scheduler, the cycle runs
                    \* that wait to be resumed, the last run of main.py's cycle

vars ==
    <<req, browser, now, cache, cache_timeout, wrote, gd, fb, base_url, op,
      hash_seed, users, bot, redis_client, store, cycle, rd, dl, loop, ex, chk,
      tx>>

fetchVars == <<req>>
scraperVars == <<now, cache, cache_timeout, wrote, gd, fb>>
configVars == <<browser, base_url, hash_seed>>
botVars == <<users, bot, redis_client, store, cycle>>
unitVars == <<ex, chk, tx>>
callVars == <<rd, dl, loop, unitVars>>

----------------------------------------------------------------------------
(* Bounds of the model *)

MaxRetriesBound == 3    \* max_retries arguments tried: 0..MaxRetriesBound
MaxTime == 4            \* the clock runs over 0..MaxTime
MaxCacheTimeout == 2    \* cache_timeout values tried: 1..MaxCacheTimeout
MaxUsers == 2           \* chat ids 1..MaxUsers
MaxSeeds == 2           \* hash salts 1..MaxSeeds
AlertTtl == 3           \* settings.REDIS_ALERT_TTL, in ticks of the clock

----------------------------------------------------------------------------
(* Strings *)

DigitChars == <<"0", "1", "2", "3", "4", "5", "6", "7", "8", "9">>

RECURSIVE StrNat(_)
\* str(n) of a non-negative int, as in an f-string
StrNat(n) ==
    IF n < 10 THEN <<DigitChars[n + 1]>>
    ELSE StrNat(n \div 10) \o <<DigitChars[(n % 10) + 1]>>

\* Python's `sub in s` on strings
Contains(s, sub) ==
    \E i \in 0..(Len(s) - Len(sub)) : SubSeq(s, i + 1, i + Len(sub)) = sub

Txt403 == <<"4", "0", "3">>
TxtNoResponse ==
    <<"N", "o", " ", "r", "e", "s", "p", "o", "n", "s", "e", " ", "r", "e", "c",
      "e", "i", "v", "e", "d", " ", "f", "o", "r", " ">>
TxtForbidden ==
    <<"4", "0", "3", " ", "C", "l", "i", "e", "n", "t", " ", "E", "r", "r", "o",
      "r", ":", " ", "F", "o", "r", "b", "i", "d", "d", "e", "n", " ", "f", "o",
      "r", " ", "u", "r", "l", ":", " ">>
TxtErrorForUrl ==
    <<" ", "E", "r", "r", "o", "r", " ", "f", "o", "r", " ", "u", "r", "l", ":", " ">>
TxtPageParam == <<"?", "p", "a", "g", "e", "=">>

----------------------------------------------------------------------------
(* The origin, as the fetch engine sees it *)

\* URLs handed to _make_request: one without and one with the digits 403
UrlPlain == <<"h", "/", "w">>
Url4031 == <<"h", "/", "4", "0", "3", "1">>
Urls == {UrlPlain, Url4031}

\* Texts of exceptions raised by page.goto itself (timeout, connection error)
ErrTimeout ==
    <<"T", "i", "m", "e", "o", "u", "t", " ", "3", "0", "0", "0", "0", "m", "s",
      " ", "e", "x", "c", "e", "e", "d", "e", "d">>
ErrNet4030 ==
    <<"n", "e", "t", ":", ":", "E", "R", "R", "_", "F", "A", "I", "L", "E", "D",
      " ", "a", "t", " ", ":", "4", "0", "3", "0">>
ErrorTexts == {ErrTimeout, ErrNet4030}

Statuses == {200, 403, 404, 500}

\* What one page.goto can do: answer with a status, return None, or raise
StatusOutcome(s) == [kind |-> "status", status |-> s, text |-> <<>>]
NoneOutcome == [kind |-> "none", status |-> 0, text |-> <<>>]
ErrorOutcome(t) == [kind |-> "error", status |-> 0, text |-> t]
Outcomes ==
    {StatusOutcome(s) : s \in Statuses} \cup {NoneOutcome}
        \cup {ErrorOutcome(t) : t \in ErrorTexts}

----------------------------------------------------------------------------
(* BaseScraper._make_request *)

NoException == [raised |-> FALSE, msg |-> <<>>]
Exc(m) == [raised |-> TRUE, msg |-> m]

\* delay before the GET of an attempt, in ms, as the range of random.uniform
RequestDelay(attempt) ==
    IF attempt = 0 THEN [lo |-> 1000, hi |-> 3000]
    ELSE [lo |-> 3000 * (attempt + 1), hi |-> 6000 * (attempt + 1)]

Backoff_Constant(attempt) == [lo |-> 2000, hi |-> 4000]

\* backoff after a 403 with attempts remaining, in ms
Backoff(attempt) == [lo |-> (2 ^ attempt) * 2000, hi |-> (2 ^ attempt) * 4000]
NoWait == [lo |-> 0, hi |-> 0]

MoreAttemptsRemain_LastToo(attempt, max_retries) == attempt < max_retries

\* `if attempt < max_retries - 1` under `if status_code == 403`
MoreAttemptsRemain(attempt, max_retries) == attempt < max_retries - 1

\* the negation of `if "403" not in str(e)` in the except clause
IsBlockText(msg) == Contains(msg, Txt403)

\* The exception the try block of one attempt raises for page.goto's outcome,
\* when the attempt does not `continue` and does not return
RaisedInTry(url, out) ==
    CASE out.kind = "error" -> Exc(out.text)
      [] out.kind = "none" -> Exc(TxtNoResponse \o url)
      [] out.kind = "status" /\ out.status = 403 -> Exc(TxtForbidden \o url)
      [] out.kind = "status" /\ out.status >= 400 ->
            Exc(StrNat(out.status) \o TxtErrorForUrl \o url)
      [] OTHER -> NoException

\* One entry of the attempt log: the GET of `attempt`, made on `session`
AttemptEntry(attempt, session, out, backoff) ==
    [attempt |-> attempt, session |-> session, delay |-> RequestDelay(attempt),
     out |-> out, backoff |-> backoff]

RequestResult(outcome, exception, response, log) ==
    [outcome |-> outcome, exception |-> exception, response |-> response,
     gets |-> Len(log), log |-> log]

RECURSIVE AttemptLoop(_, _, _, _, _, _, _)
\* `for attempt in range(max_retries)` from `attempt` on, then the code after
\* the loop. outs[attempt + 1] is what page.goto does in that attempt.
AttemptLoop(url, max_retries, outs, session, attempt, last_exception, log) ==
    IF attempt >= max_retries
    THEN IF last_exception.raised
         THEN RequestResult("raise", last_exception, NoneOutcome, log)
         ELSE RequestResult("return_none", NoException, NoneOutcome, log)
    ELSE LET out == outs[attempt + 1]
             blocked == out.kind = "status" /\ out.status = 403
             e == RaisedInTry(url, out)
         IN  IF blocked /\ MoreAttemptsRemain(attempt, max_retries)
             THEN \* wait the backoff and `continue`, on the same page
                  AttemptLoop(url, max_retries, outs, session, attempt + 1,
                      last_exception,
                      Append(log, AttemptEntry(attempt, session, out, Backoff(attempt))))
             ELSE LET log1 == Append(log, AttemptEntry(attempt, session, out, NoWait))
                  IN  IF e.raised
                      THEN IF ~IsBlockText(e.msg)
                           THEN RequestResult("raise", e, NoneOutcome, log1)
                           ELSE AttemptLoop(url, max_retries, outs, session,
                                    attempt + 1, e, log1)
                      ELSE RequestResult("return", NoException, out, log1)

\* _make_request(url, max_retries=max_retries) with no params, on `session`
MakeRequestResult(url, max_retries, outs, session) ==
    AttemptLoop(url, max_retries, outs, session, 0, NoException, <<>>)

IdleRequest ==
    [called |-> FALSE, url |-> <<>>, max_retries |-> 0, outs |-> <<>>,
     result |-> RequestResult("return_none", NoException, NoneOutcome, <<>>)]

\* A caller invokes _make_request on the constructed scraper
MakeRequest(url, max_retries, outs) ==
    /\ ~req.called
    /\ req' = [called |-> TRUE, url |-> url, max_retries |-> max_retries,
               outs |-> outs,
               result |-> MakeRequestResult(url, max_retries, outs, browser.session)]
    /\ op' = "make_request"
    /\ UNCHANGED <<callVars, scraperVars, configVars, botVars>>

\* The caller has taken the outcome of its _make_request call
RequestDone ==
    /\ req.called
    /\ req' = IdleRequest
    /\ op' = "request_done"
    /\ UNCHANGED <<callVars, scraperVars, configVars, botVars>>

----------------------------------------------------------------------------
(* BaseScraper.__init__ / _setup_browser / _warm_up_session *)

UserAgent == "Chrome/131.0.0.0"

\* __init__ before _setup_browser: _playwright, _browser, _context, _page None
NoSession ==
    [session |-> 0, identity |-> "none", state |-> "NO_SESSION",
     warmups |-> 0, warm_ok |-> FALSE]

\* _setup_browser up to its call of _warm_up_session: playwright started, the
\* browser launched, one context with the fixed user agent, one page
LaunchedBrowser ==
    [session |-> 1, identity |-> UserAgent, state |-> "WARMING",
     warmups |-> 0, warm_ok |-> FALSE]

WarmUpSessionResult_Fatal(b, ok) ==
    IF ok THEN [b EXCEPT !.state = "READY", !.warmups = @ + 1, !.warm_ok = TRUE]
    ELSE [NoSession EXCEPT !.warmups = b.warmups + 1]

\* _warm_up_session: one goto of base_url; what it raises is logged, and
\* _setup_browser and __init__ return
WarmUpSessionResult(b, ok) ==
    [b EXCEPT !.state = "READY", !.warmups = @ + 1, !.warm_ok = ok]

\* The instance after __init__ returned: one browser context, warmed up once
ConstructedBrowser(warmOk) == WarmUpSessionResult(LaunchedBrowser, warmOk)

\* _setup_browser, first part. When playwright or the launch raises, the
\* exception is logged and raised again: __init__ raises, no instance exists.
SetupBrowser(launch_ok) ==
    /\ browser.state = "NO_SESSION"
    /\ browser' = IF launch_ok THEN LaunchedBrowser ELSE browser
    /\ op' = IF launch_ok THEN "setup_browser" ELSE "setup_browser_raised"
    /\ UNCHANGED <<callVars, req, scraperVars, base_url, hash_seed, botVars>>

\* _setup_browser, second part: the warm-up
WarmUpSession(ok) ==
    /\ browser.state = "WARMING"
    /\ browser' = WarmUpSessionResult(browser, ok)
    /\ op' = "warm_up_session"
    /\ UNCHANGED <<callVars, req, scraperVars, base_url, hash_seed, botVars>>

\* A fetch on the constructed instance
FetchOnInstance ==
    /\ browser.state = "READY"
    /\ \E url \in Urls, n \in 0..MaxRetriesBound :
          \E outs \in [1..n -> Outcomes] : MakeRequest(url, n, outs)

----------------------------------------------------------------------------
(* WaterScraper._extract_item_data *)

IsSpace(c) == c \in {" ", "\n", "\t"}

RECURSIVE LStrip(_)
LStrip(s) == IF s # <<>> /\ IsSpace(Head(s)) THEN LStrip(Tail(s)) ELSE s

RECURSIVE RStrip(_)
RStrip(s) ==
    IF s # <<>> /\ IsSpace(s[Len(s)]) THEN RStrip(SubSeq(s, 1, Len(s) - 1)) ELSE s

\* str.strip()
Strip(s) == RStrip(LStrip(s))

RECURSIVE CollapseWhitespace(_)
\* WHITESPACE_PATTERN.sub(' ', s): every run of whitespace becomes one space
CollapseWhitespace(s) ==
    IF s = <<>> THEN <<>>
    ELSE IF IsSpace(Head(s))
         THEN <<" ">> \o CollapseWhitespace(LStrip(s))
         ELSE <<Head(s)>> \o CollapseWhitespace(Tail(s))

RECURSIVE MessageParts(_)
\* the stripped, non-empty text nodes under the panel body, in document order
MessageParts(nodes) ==
    IF nodes = <<>> THEN <<>>
    ELSE LET text == Strip(Head(nodes))
         IN  (IF text # <<>> THEN <<text>> ELSE <<>>) \o MessageParts(Tail(nodes))

RECURSIVE JoinSpace(_)
\* ' '.join(parts)
JoinSpace(parts) ==
    IF parts = <<>> THEN <<>>
    ELSE IF Len(parts) = 1 THEN Head(parts)
         ELSE Head(parts) \o <<" ">> \o JoinSpace(Tail(parts))

\* str(hash(text)): Python salts str hashes with a per-process seed
StoryId(seed, text) == [seed |-> seed, text |-> text]
NoStoryId == [seed |-> 0, text |-> <<>>]

NoAlert ==
    [some |-> FALSE, title |-> <<>>, message |-> <<>>, published_at |-> 0,
     story_id |-> NoStoryId]

ExtractItemData_NoSkip(link, seed, at) ==
    [some |-> TRUE, title |-> CollapseWhitespace(Strip(link.text)), message |-> <<>>,
     published_at |-> at,
     story_id |-> StoryId(seed, CollapseWhitespace(Strip(link.text)))]

\* link: an <a> of the page: its text, whether it has an enclosing div.panel,
\* whether the panel has a div.panel-collapse, whether that has a panel body,
\* the text nodes of the body, and whether reading it raises
ExtractItemData(link, seed, at) ==
    IF link.raises \/ ~link.panel \/ ~link.body_wrapper THEN NoAlert
    ELSE LET title == CollapseWhitespace(Strip(link.text))
             message ==
                 Strip(CollapseWhitespace(JoinSpace(
                     IF link.panel_body THEN MessageParts(link.nodes) ELSE <<>>)))
         IN  [some |-> TRUE, title |-> title, message |-> message,
              published_at |-> at, story_id |-> StoryId(seed, title \o message)]

RECURSIVE ExtractLinks(_, _, _)
\* `for link in accordion_links: ... if alert_data: alerts.append(alert_data)`
ExtractLinks(links, seed, at) ==
    IF links = <<>> THEN <<>>
    ELSE LET alert_data == ExtractItemData(Head(links), seed, at)
         IN  (IF alert_data.some THEN <<alert_data>> ELSE <<>>)
                 \o ExtractLinks(Tail(links), seed, at)

IdleExtract == [called |-> FALSE, links |-> <<>>, result |-> <<>>, seen |-> {}]

\* (title, message, story_id) of the records whose (title, message) is not in
\* `seen` yet
FirstSeen(seen, records) ==
    seen \cup { [title |-> records[i].title, message |-> records[i].message,
                 story_id |-> records[i].story_id] :
                 i \in { j \in 1..Len(records) :
                     /\ \A x \in seen : ~( x.title = records[j].title
                                            /\ x.message = records[j].message )
                     /\ \A k \in 1..(j - 1) : ~( records[k].title = records[j].title
                                                 /\ records[k].message = records[j].message ) } }

\* The link loop of get_data (lines 54-57) on the links of one parsed page
ExtractPage(links) ==
    \E alerts \in {ExtractLinks(links, hash_seed, now)} :
        /\ ex' = [called |-> TRUE, links |-> links, result |-> alerts,
                  seen |-> FirstSeen(ex.seen, alerts)]
        /\ op' = "extract"
        /\ UNCHANGED <<rd, dl, loop, chk, tx, req, scraperVars, configVars, botVars>>

----------------------------------------------------------------------------
(* The result cache: BaseScraper.cache, is_cache_valid, _handle_scraping_failure *)

KeyAll == "water_alerts_all"
Keys == {KeyAll, "other"}

NoEntry == [present |-> FALSE, data |-> <<>>, timestamp |-> 0]
Entry(data, at) == [present |-> TRUE, data |-> data, timestamp |-> at]
NeverWritten == [written |-> FALSE, at |-> 0]
EmptyCache == [k \in Keys |-> NoEntry]

\* WaterScraper.get_cache_key: the location is ignored
GetCacheKey(location) == KeyAll

ElapsedIsValid_Inclusive(elapsed_seconds, timeout) == elapsed_seconds <= timeout

\* `is_valid = elapsed_seconds < self.cache_timeout`
ElapsedIsValid(elapsed_seconds, timeout) == elapsed_seconds < timeout

IsCacheValidIn_Never(c, key, t, timeout) == FALSE

\* BaseScraper.is_cache_valid on cache `c` at time `t`
IsCacheValidIn(c, key, t, timeout) ==
    IF ~c[key].present THEN FALSE
    ELSE ElapsedIsValid(t - c[key].timestamp, timeout)

IsCacheValid(key) == IsCacheValidIn(cache, key, now, cache_timeout)

\* WaterScraper.get_fallback_data, called at time `at`
GetFallbackData(at) ==
    <<[some |-> TRUE,
       title |-> <<"W", "a", "t", "e", "r", " ", "A", "l", "e", "r", "t", "s", " ",
                   "U", "n", "a", "v", "a", "i", "l", "a", "b", "l", "e">>,
       message |-> <<"C", "o", "u", "l", "d", " ", "n", "o", "t", " ", "r", "e", "t",
                     "r", "i", "e", "v", "e", " ", "w", "a", "t", "e", "r", " ", "s",
                     "u", "p", "p", "l", "y", " ", "d", "a", "t", "a">>,
       published_at |-> at, story_id |-> NoStoryId]>>

HasFallbackEntry_OnlyValid(c, key) == IsCacheValidIn(c, key, now, cache_timeout)

\* `if cache_key in self.cache`
HasFallbackEntry(c, key) == c[key].present

\* BaseScraper._handle_scraping_failure(cache_key) on cache `c` at time `at`
HandleScrapingFailureResult(c, key, at) ==
    IF HasFallbackEntry(c, key) THEN c[key].data ELSE GetFallbackData(at)

IdleFallback == [called |-> FALSE, key |-> KeyAll, result |-> <<>>]

HandleScrapingFailure(key) ==
    /\ fb' = [called |-> TRUE, key |-> key,
              result |-> HandleScrapingFailureResult(cache, key, now)]
    /\ op' = "handle_scraping_failure"
    /\ UNCHANGED <<callVars, req, now, cache, cache_timeout, wrote, gd, configVars, botVars>>

\* Time passes between calls
Tick ==
    /\ now < MaxTime
    /\ now' = now + 1
    /\ op' = "tick"
    /\ UNCHANGED <<callVars, req, cache, cache_timeout, wrote, gd, fb, configVars, botVars>>

----------------------------------------------------------------------------
(* WaterScraper.get_data *)

PageCap == 5
DefaultMaxRetries == 3

\* `url = f"{self.base_url}?page={page_num}" if page_num > 1 else self.base_url`
PageUrl(base, page_num) ==
    IF page_num > 1 THEN base \o TxtPageParam \o StrNat(page_num) ELSE base

AwaitRaisesTypeError_Never(result) == FALSE

\* `await v` on what the plain function _make_request returned: neither a
\* PlaywrightResponse nor None has __await__, so the await raises TypeError
AwaitRaisesTypeError(result) == result.outcome \in {"return", "return_none"}

\* One iteration of `for page_num in range(1, 6)`: the request, then the inner
\* try block up to the extraction; any exception is logged and the page skipped.
\* page: what the origin does for this page: [outs, links]
ScrapePage(base, page_num, page, session, seed, at) ==
    LET r == MakeRequestResult(PageUrl(base, page_num), DefaultMaxRetries,
                               page.outs, session)
        raised == r.outcome = "raise" \/ AwaitRaisesTypeError(r)
    IN  [gets |-> r.gets, failed |-> raised,
         alerts |-> IF raised THEN <<>> ELSE ExtractLinks(page.links, seed, at)]

RECURSIVE ScrapePages(_, _, _, _, _, _, _)
\* the page loop from page_num on; acc: [alerts, gets, requested, failed,
\* yields], yields being the number of records each page requested gave
ScrapePages(base, page_num, pages, session, seed, at, acc) ==
    IF page_num > PageCap THEN acc
    ELSE LET p == ScrapePage(base, page_num, pages[page_num], session, seed, at)
         IN  ScrapePages(base, page_num + 1, pages, session, seed, at,
                 [alerts |-> acc.alerts \o p.alerts, gets |-> acc.gets + p.gets,
                  requested |-> acc.requested + 1,
                  failed |-> acc.failed + (IF p.failed THEN 1 ELSE 0),
                  yields |-> Append(acc.yields, Len(p.alerts))])

\* get_data on a scraper whose cache is `c`: the value returned, the cache
\* afterwards and what the call did. Nothing between the inner try blocks
\* raises, so the outer `except` (line 70) is never entered.
GetDataResult(c, base, timeout, pages, session, seed, at) ==
    LET cache_key == GetCacheKey(<<>>)
    IN  IF IsCacheValidIn(c, cache_key, at, timeout)
        THEN [result |-> c[cache_key].data, cache |-> c, hit |-> TRUE,
              gets |-> 0, requested |-> 0, failed |-> 0, yields |-> <<>>]
        ELSE LET s == ScrapePages(base, 1, pages, session, seed, at,
                          [alerts |-> <<>>, gets |-> 0, requested |-> 0, failed |-> 0,
                           yields |-> <<>>])
             IN  [result |-> s.alerts,
                  cache |-> [c EXCEPT ![cache_key] = Entry(s.alerts, at)],
                  hit |-> FALSE, gets |-> s.gets, requested |-> s.requested,
                  failed |-> s.failed, yields |-> s.yields]

----------------------------------------------------------------------------
(* What the origin serves for one page *)

LocDA == <<"D", "A">>
LocDB == <<"D", "B">>
\* the keys of settings.AVAILABLE_LOCATIONS
AvailableLocations == {LocDA, LocDB}

TitleA == <<"A", "l", "e", "r", "t", " ">> \o LocDA
TitleB == <<"A", "l", "e", "r", "t", " ">> \o LocDB
BodyNodes == << <<" ", "n", "o", " ", " ", "w", "a", "t", "e", "r">> >>
LinkA ==
    [text |-> <<" ">> \o TitleA \o <<"\n">>, panel |-> TRUE, body_wrapper |-> TRUE,
     panel_body |-> TRUE, nodes |-> BodyNodes, raises |-> FALSE]
LinkB ==
    [text |-> TitleB, panel |-> TRUE, body_wrapper |-> TRUE,
     panel_body |-> TRUE, nodes |-> BodyNodes, raises |-> FALSE]

Outs3(o) == [i \in 1..DefaultMaxRetries |-> o]
PageOk == [outs |-> Outs3(StatusOutcome(200)), links |-> <<LinkA, LinkB>>]
PageEmpty == [outs |-> Outs3(StatusOutcome(200)), links |-> <<>>]
PageBlocked == [outs |-> Outs3(StatusOutcome(403)), links |-> <<>>]
PageError == [outs |-> Outs3(StatusOutcome(500)), links |-> <<>>]

\* What the origin serves for pages 1..PageCap of one scrape
AllPages(p) == [n \in 1..PageCap |-> p]
Origins ==
    {AllPages(PageOk),
     [AllPages(PageEmpty) EXCEPT ![1] = PageOk],
     [AllPages(PageOk) EXCEPT ![2] = PageBlocked],
     [AllPages(PageOk) EXCEPT ![3] = PageError],
     AllPages(PageBlocked)}

IdleGetData ==
    [called |-> FALSE, hit |-> FALSE, result |-> <<>>, gets |-> 0, requested |-> 0,
     failed |-> 0, yields |-> <<>>, entry_before |-> NoEntry]

\* A caller invokes get_data on the scraper instance
GetData(pages) ==
    \E g \in {GetDataResult(cache, base_url, cache_timeout, pages, browser.session,
                             hash_seed, now)} :
        /\ cache' = g.cache
        /\ wrote' = IF g.cache # cache
                    THEN [wrote EXCEPT ![KeyAll] = [written |-> TRUE, at |-> now]]
                    ELSE wrote
        /\ gd' = [called |-> TRUE, hit |-> g.hit, result |-> g.result,
                  gets |-> g.gets, requested |-> g.requested, failed |-> g.failed,
                  yields |-> g.yields, entry_before |-> cache[KeyAll]]
        /\ op' = "get_data"
        /\ UNCHANGED <<callVars, req, now, cache_timeout, fb, configVars, botVars>>

----------------------------------------------------------------------------
(* The users table: UserRepository behind UserService, and the handlers *)

ChatIds == 1..MaxUsers
NoLocation == <<>>
NoTime == -1

NoUser ==
    [exists |-> FALSE, location |-> NoLocation, is_active |-> FALSE,
     last_notified |-> NoTime, last_location_changed |-> NoTime]

\* UserRepository.add_user
AddUser(reg, chat_id, location, is_active) ==
    [reg EXCEPT ![chat_id] =
        [exists |-> TRUE, location |-> location, is_active |-> is_active,
         last_notified |-> NoTime, last_location_changed |-> NoTime]]

\* UserRepository.update_user(chat_id, field=value): no row, no change
UpdateUser(reg, chat_id, field, value) ==
    IF ~reg[chat_id].exists THEN reg
    ELSE [reg EXCEPT ![chat_id] = [@ EXCEPT ![field] = value]]

RECURSIVE ActiveRowsFrom(_, _)
ActiveRowsFrom(reg, chat_id) ==
    IF chat_id > MaxUsers THEN <<>>
    ELSE (IF reg[chat_id].exists /\ reg[chat_id].is_active
          THEN <<[chat_id |-> chat_id, location |-> reg[chat_id].location]>>
          ELSE <<>>) \o ActiveRowsFrom(reg, chat_id + 1)

\* UserRepository.get_active_users: the rows with is_active, by chat_id
GetActiveUsers(reg) == ActiveRowsFrom(reg, 1)

\* cmd_subscribe: the users table after it
SubscribeResult(reg, chat_id) ==
    IF reg[chat_id].exists
    THEN IF reg[chat_id].is_active /\ reg[chat_id].location # NoLocation
         THEN reg
         ELSE IF reg[chat_id].location = NoLocation
              THEN reg
              ELSE UpdateUser(reg, chat_id, "is_active", TRUE)
    ELSE AddUser(reg, chat_id, NoLocation, TRUE)

\* /subscribe
CmdSubscribe(chat_id) ==
    /\ users' = SubscribeResult(users, chat_id)
    /\ UNCHANGED <<callVars, req, scraperVars, configVars, op, bot, redis_client, store, cycle>>

\* cmd_subscribe: what it answers
SubscribeReply(row) ==
    IF ~row.exists THEN "location_prompt"
    ELSE IF row.is_active /\ row.location # NoLocation THEN "already_subscribed"
    ELSE IF row.location = NoLocation THEN "location_prompt"
    ELSE "reactivated"

IsAvailableLocation_Any(selected_location) == TRUE

\* `selected_location not in AVAILABLE_LOCATIONS`, negated: membership in the
\* keys of the dict
IsAvailableLocation(selected_location) == selected_location \in AvailableLocations

\* handle_location_selection: the users table after it, called at time `at`
LocationSelectionResult(reg, chat_id, selected_location, at) ==
    IF ~IsAvailableLocation(selected_location) THEN reg
    ELSE IF ~reg[chat_id].exists THEN reg
    ELSE LET is_location_change == reg[chat_id].location # NoLocation
             located == UpdateUser(reg, chat_id, "location", selected_location)
         IN  IF is_location_change
             THEN UpdateUser(located, chat_id, "last_location_changed", at)
             ELSE located

\* the callback query "location:<selected_location>"
HandleLocationSelection(chat_id, selected_location) ==
    /\ users' = LocationSelectionResult(users, chat_id, selected_location, now)
    /\ UNCHANGED <<callVars, req, scraperVars, configVars, op, bot, redis_client, store, cycle>>

\* 24 hours, in ticks of the clock
Day == 2

\* cmd_change_location: what it answers. It writes nothing to the users table.
ChangeLocationReply(row, at) ==
    IF ~row.exists \/ ~row.is_active THEN "not_subscribed"
    ELSE IF row.location = NoLocation THEN "no_location"
    ELSE IF row.last_location_changed # NoTime /\ at - row.last_location_changed < Day
         THEN "rate_limited"
    ELSE "keyboard"

\* /location
CmdChangeLocation(chat_id) ==
    /\ op' = ChangeLocationReply(users[chat_id], now)
    /\ UNCHANGED <<callVars, req, scraperVars, configVars, botVars>>

\* cmd_unsubscribe: the users table after it
UnsubscribeResult(reg, chat_id) ==
    IF reg[chat_id].exists /\ reg[chat_id].is_active
    THEN UpdateUser(reg, chat_id, "is_active", FALSE)
    ELSE reg

\* /unsubscribe
CmdUnsubscribe(chat_id) ==
    /\ users' = UnsubscribeResult(users, chat_id)
    /\ UNCHANGED <<callVars, req, scraperVars, configVars, op, bot, redis_client, store, cycle>>

----------------------------------------------------------------------------
(* RedisService and the Redis set behind it *)

NoKey == [exists |-> FALSE, members |-> {}, expires_at |-> NoTime]

\* the key sent_alerts:{chat_id} exists at time t (Redis drops it at its expiry)
LiveKey(st, chat_id, t) ==
    st[chat_id].exists /\ (st[chat_id].expires_at = NoTime \/ t < st[chat_id].expires_at)

\* SISMEMBER
SIsMember(st, chat_id, alert_id, t) ==
    LiveKey(st, chat_id, t) /\ alert_id \in st[chat_id].members

\* SADD: on a missing or expired key a new set without expiry
SAdd(st, chat_id, alert_id, t) ==
    IF LiveKey(st, chat_id, t)
    THEN [st EXCEPT ![chat_id].members = @ \cup {alert_id}]
    ELSE [st EXCEPT ![chat_id] =
            [exists |-> TRUE, members |-> {alert_id}, expires_at |-> NoTime]]

Expire_NoOp(st, chat_id, ttl, t) == st

\* EXPIRE key ttl
Expire(st, chat_id, ttl, t) ==
    IF LiveKey(st, chat_id, t) THEN [st EXCEPT ![chat_id].expires_at = t + ttl]
    ELSE st

\* backend: "up", "down" (every command raises) or "expire_fails"
Backends == {"up", "down", "expire_fails"}

\* RedisService.has_alert_been_sent
HasAlertBeenSent(client, backend, st, chat_id, alert_id, t) ==
    IF ~client THEN FALSE
    ELSE IF backend = "down" THEN FALSE
    ELSE SIsMember(st, chat_id, alert_id, t)

\* RedisService.mark_alert_as_sent: [ok, store]
MarkAlertAsSent(client, backend, st, chat_id, alert_id, t) ==
    IF ~client THEN [ok |-> FALSE, store |-> st]
    ELSE IF backend = "down" THEN [ok |-> FALSE, store |-> st]
    ELSE LET added == SAdd(st, chat_id, alert_id, t)
         IN  IF backend = "expire_fails" THEN [ok |-> FALSE, store |-> added]
             ELSE [ok |-> TRUE, store |-> Expire(added, chat_id, AlertTtl, t)]

\* the alert ids passed to RedisService by a direct caller
AlertIds == {StoryId(1, <<"A">>), StoryId(1, <<"B">>)}

\* the subscriber of the direct calls: _get_user_key gives every chat_id a key
\* of its own, and a call touches the key of its chat_id only
CallChat == 1

NoMarkCall ==
    [called |-> FALSE, alert_id |-> NoStoryId, backend |-> "up", ok |-> FALSE,
     at |-> NoTime, again |-> FALSE]
NoHasCall == [called |-> FALSE, alert_id |-> NoStoryId, backend |-> "up", result |-> FALSE]

\* mark: the last mark_alert_as_sent call; has: the last has_alert_been_sent
\* call; called_at: history, the time of the last mark_alert_as_sent(s, f)
\* call for each f
IdleRedis ==
    [mark |-> NoMarkCall, has |-> NoHasCall, called_at |-> [f \in AlertIds |-> NoTime]]

\* A caller invokes redis_service.has_alert_been_sent(CallChat, alert_id)
HasAlertBeenSentCall(alert_id, backend) ==
    /\ rd' = [rd EXCEPT !.has =
                 [called |-> TRUE, alert_id |-> alert_id, backend |-> backend,
                  result |-> HasAlertBeenSent(redis_client, backend, store, CallChat,
                                              alert_id, now)]]
    /\ op' = "has_alert_been_sent"
    /\ UNCHANGED <<req, scraperVars, configVars, users, bot, redis_client, store, cycle, dl, loop, unitVars>>

\* A caller invokes redis_service.mark_alert_as_sent(CallChat, alert_id)
MarkAlertAsSentCall(alert_id, backend) ==
    \E m \in {MarkAlertAsSent(redis_client, backend, store, CallChat, alert_id, now)} :
        /\ store' = m.store
        /\ rd' = [rd EXCEPT
                     !.mark = [called |-> TRUE, alert_id |-> alert_id, backend |-> backend,
                               ok |-> m.ok, at |-> now,
                               again |-> SIsMember(store, CallChat, alert_id, now)],
                     !.called_at[alert_id] = now]
        /\ op' = "mark_alert_as_sent"
        /\ UNCHANGED <<req, scraperVars, configVars, users, bot, redis_client, cycle, dl, loop, unitVars>>

\* RedisService.connect: the client is assigned before the ping, so it stays
\* set whether or not the ping succeeds
RedisConnect ==
    /\ redis_client' = TRUE
    /\ UNCHANGED <<callVars, req, scraperVars, configVars, op, users, bot, store, cycle>>

\* TelegramService.get_session
GetSession ==
    /\ bot' = TRUE
    /\ UNCHANGED <<callVars, req, scraperVars, configVars, op, users, redis_client, store, cycle>>

----------------------------------------------------------------------------
(* BotService.send_alert_to_user and check_and_send_alerts *)

\* what bot.send_message does: returns, raises TelegramAPIError "bot was
\* blocked by the user", or raises another error
Transports == {"ok", "blocked", "error"}

SendAlertToUser_KeepsActive(reg, chat_id, transport) ==
    [success |-> transport = "ok", users |-> reg]

\* send_alert_to_user: [success, users]
SendAlertToUser(reg, chat_id, transport) ==
    CASE transport = "ok" -> [success |-> TRUE, users |-> reg]
      [] transport = "blocked" ->
            [success |-> FALSE, users |-> UpdateUser(reg, chat_id, "is_active", FALSE)]
      [] OTHER -> [success |-> FALSE, users |-> reg]

IdleDelivery ==
    [called |-> FALSE, chat_id |-> 1, transport |-> "ok", success |-> FALSE,
     active_before |-> FALSE]

\* A caller invokes BotService.send_alert_to_user(bot, user, alert) with the
\* bot of the session and a user row of the table
SendAlert(chat_id, transport) ==
    /\ bot
    /\ users[chat_id].exists
    /\ \E sent \in {SendAlertToUser(users, chat_id, transport)} :
          /\ users' = sent.users
          /\ dl' = [called |-> TRUE, chat_id |-> chat_id, transport |-> transport,
                    success |-> sent.success,
                    active_before |-> users[chat_id].is_active]
    /\ op' = "send_alert_to_user"
    /\ UNCHANGED <<req, scraperVars, configVars, bot, redis_client, store, cycle, rd, loop, unitVars>>

----------------------------------------------------------------------------
(* The database session of one UserService call: get_db, _get_repository *)

\* get_db from its `yield db` on: the calls on the session, in order. how:
\* "next" when the generator is resumed after the yield, "throw" when an
\* exception is raised into it at the yield; commit_ok: db.commit() returns
GetDbAfterYield(how, commit_ok) ==
    IF how = "throw" THEN <<"rollback", "close">>
    ELSE IF commit_ok THEN <<"commit", "close">>
    ELSE <<"commit", "rollback", "close">>

\* UserService._get_repository: how its finally clause resumes get_db.
\* `next(db_gen)` is the only statement, whether or not the with body raised.
RepositoryExit(body_raised) == "next"

RepositoryOps == {"add_user", "update_user", "remove_user"}

\* The statements of a UserRepository method that raise in a run: "query"
\* is get_user's select, "commit" the method's own self.db.commit(),
\* "refresh" the self.db.refresh(user) after it, "none" a run that returns.
\* add_user of a chat_id that has a row raises at its commit (primary key).
SitesOf(opname, reg, chat_id) ==
    CASE opname = "add_user" ->
             IF reg[chat_id].exists THEN {"commit"} ELSE {"none", "commit", "refresh"}
      [] opname = "update_user" -> {"none", "query", "commit", "refresh"}
      [] OTHER -> {"none", "query", "commit"}

\* The users table after a UserRepository method that raised at `site`: the
\* method's own commit stores its change, so the change is in the table
\* when the method returned or raised after that commit. A change whose
\* commit raised is taken as not stored.
RepositoryResult(reg, opname, chat_id, value, site) ==
    IF site \in {"query", "commit"} THEN reg
    ELSE CASE opname = "add_user" -> AddUser(reg, chat_id, NoLocation, TRUE)
           [] opname = "update_user" -> UpdateUser(reg, chat_id, "is_active", value)
           [] OTHER -> [reg EXCEPT ![chat_id] = NoUser]

IdleTx ==
    [called |-> FALSE, op |-> "none", chat_id |-> 0, site |-> "none",
     trace |-> <<>>, changed |-> FALSE]

\* user_service.add_user(chat_id, is_active=True), update_user(chat_id,
\* is_active=value) or remove_user(chat_id), to its return
UserServiceCall(opname, chat_id, value) ==
    \E site \in SitesOf(opname, users, chat_id) :
    \E commit_ok \in BOOLEAN :
    \E after \in {RepositoryResult(users, opname, chat_id, value, site)} :
        /\ users' = after
        /\ tx' = [called |-> TRUE, op |-> opname, chat_id |-> chat_id, site |-> site,
                  trace |-> GetDbAfterYield(RepositoryExit(site # "none"), commit_ok),
                  changed |-> after # users]
        /\ UNCHANGED <<rd, dl, loop, ex, chk, req, scraperVars, configVars, op, bot, redis_client, store, cycle>>

----------------------------------------------------------------------------
(* The fan-out of the alert cycle *)

RECURSIVE LocationsOf(_, _)
\* the keys of users_by_location, in insertion order
LocationsOf(active, seen) ==
    IF active = <<>> THEN <<>>
    ELSE LET loc == Head(active).location
         IN  IF loc = NoLocation \/ loc \in seen THEN LocationsOf(Tail(active), seen)
             ELSE <<loc>> \o LocationsOf(Tail(active), seen \cup {loc})

RECURSIVE UsersAt(_, _)
\* users_by_location[location]
UsersAt(active, location) ==
    IF active = <<>> THEN <<>>
    ELSE (IF Head(active).location = location THEN <<Head(active)>> ELSE <<>>)
             \o UsersAt(Tail(active), location)

\* `location in alert.get('title', '')`
TitleHasLocation(alert, location) == Contains(alert.title, location)

RECURSIVE LocationAlerts(_, _)
\* `[alert for alert in all_alerts if location in alert.get('title', '')]`
LocationAlerts(all_alerts, location) ==
    IF all_alerts = <<>> THEN <<>>
    ELSE (IF TitleHasLocation(Head(all_alerts), location)
          THEN <<Head(all_alerts)>> ELSE <<>>)
             \o LocationAlerts(Tail(all_alerts), location)

RECURSIVE Product(_, _)
\* `for user in users: for alert in location_alerts`
Product(group, location_alerts) ==
    IF group = <<>> THEN <<>>
    ELSE [i \in 1..Len(location_alerts) |->
             [user |-> Head(group), alert |-> location_alerts[i]]]
         \o Product(Tail(group), location_alerts)

RECURSIVE PairsOf(_, _, _)
\* the (user, alert) pairs in the order the three nested loops visit them
PairsOf(locations, active, all_alerts) ==
    IF locations = <<>> THEN <<>>
    ELSE Product(UsersAt(active, Head(locations)),
                 LocationAlerts(all_alerts, Head(locations)))
         \o PairsOf(Tail(locations), active, all_alerts)

RECURSIVE FanOut(_, _, _, _, _, _)
\* the body of the innermost loop for each pair in turn.
\* st: [users, store, attempts]
FanOut(pairs, st, client, backend, transport, at) ==
    IF pairs = <<>> THEN st
    ELSE LET chat_id == Head(pairs).user.chat_id
             alert == Head(pairs).alert
             alert_id == alert.story_id
         IN  IF alert_id # NoStoryId
                 /\ HasAlertBeenSent(client, backend, st.store, chat_id, alert_id, at)
             THEN FanOut(Tail(pairs), st, client, backend, transport, at)
             ELSE LET sent == SendAlertToUser(st.users, chat_id, transport[chat_id])
                      marked ==
                          IF sent.success /\ alert_id # NoStoryId
                          THEN MarkAlertAsSent(client, backend, st.store, chat_id,
                                               alert_id, at).store
                          ELSE st.store
                      notified ==
                          IF sent.success
                          THEN UpdateUser(sent.users, chat_id, "last_notified", at)
                          ELSE sent.users
                  IN  FanOut(Tail(pairs),
                          [users |-> notified, store |-> marked,
                           attempts |-> Append(st.attempts,
                               [chat_id |-> chat_id, title |-> alert.title,
                                story_id |-> alert_id, success |-> sent.success])],
                          client, backend, transport, at)

RECURSIVE ServedFrom(_, _, _, _, _)
\* history: the records in the pages the origin answered with a response
ServedFrom(base, page_num, pages, seed, at) ==
    IF page_num > PageCap THEN <<>>
    ELSE (IF MakeRequestResult(PageUrl(base, page_num), DefaultMaxRetries,
                 pages[page_num].outs, 1).outcome = "return"
          THEN ExtractLinks(pages[page_num].links, seed, at) ELSE <<>>)
         \o ServedFrom(base, page_num + 1, pages, seed, at)

CycleReport(exit, snapshot, served, all_alerts, st) ==
    [ran |-> TRUE, exit |-> exit, snapshot |-> snapshot, served |-> served,
     all_alerts |-> all_alerts, attempts |-> st.attempts,
     users |-> st.users, store |-> st.store]

\* what the run met below the fan-out: whether WaterScraper() returned, and
\* the page fetches of get_data that failed
ScrapeReport(constructed, g) ==
    [constructed |-> constructed, requested |-> g.requested, failed |-> g.failed]

\* The statements of the two cycle functions at which an exception is raised
NoSite == "none"
SiteConstruct == "bot_service.py:81"        \* scraper = WaterScraper()
SiteMainConstruct == "main.py:75"           \* scraper = WaterScraper()
SiteMainTarget == "main.py:76"              \* settings.TARGET_LOCATION
SiteMainLen == "main.py:82"                 \* len(alerts) of a coroutine object

ExceptClauseFor_None(site) == "caller"

\* The `except Exception` clause of the innermost try statement around a
\* site; "caller" when no try statement of the function is around it
ExceptClauseFor(site) ==
    CASE site = SiteConstruct -> "bot_service.py:124"
      [] site \in {SiteMainConstruct, SiteMainTarget, SiteMainLen} -> "main.py:114"
      [] OTHER -> "caller"

\* How a run ends for its caller. The except clauses only log, and the
\* function ends after them.
CycleOutcome(site) ==
    IF site = NoSite \/ ExceptClauseFor(site) # "caller" THEN "returned" ELSE "raised"

\* The only statement of BotService.check_and_send_alerts that raises: the
\* other calls (get_active_users, get_data, has_alert_been_sent,
\* send_alert_to_user, mark_alert_as_sent, update_user) catch in their own body
RaisedAt(exit) == IF exit = "error" THEN SiteConstruct ELSE NoSite

\* Whether a run of BotService.check_and_send_alerts gives the event loop
\* control before its end. `await scraper.get_data()` runs get_data to its
\* return without suspending (_make_request is a plain function); the awaits
\* that suspend are those of the fan-out, lines 106-117 (Redis, Telegram,
\* asyncio.sleep), and every pair handled runs one of them.
CycleSuspends(exit, pairs) == exit = "completed" /\ pairs # <<>>

\* user_service.get_active_users: the rows of the query, [] when it raises
ServiceGetActiveUsers(reg, db_ok) == IF db_ok THEN GetActiveUsers(reg) ELSE <<>>

\* Python's None
PyNone == [is_none |-> TRUE]

\* What BotService.check_and_send_alerts returns to its caller: every return
\* statement of it is bare (lines 57, 63, 77, 89) and its end has none
CycleReturnValue(exit) == PyNone

IdleMain ==
    [ran |-> FALSE, trigger |-> "none", exit |-> "none", raised_at |-> NoSite,
     outcome |-> "none", suspended |-> FALSE]
IdleLoop == [scheduler |-> FALSE, in_flight |-> 0, main |-> IdleMain]

\* When, before a new run, a run of this process last ran get_data to its
\* cache write. The scraper instance of a run, made at bot_service.py:81 with
\* an empty cache (base_scraper.py:48), is dropped when the run ends.
LastScrape(c) == IF c.ran /\ c.scrape.requested > 0 THEN c.at ELSE c.prev_scrape

\* A run that suspends stays in progress while the loop runs other callbacks
Started(l, suspended) ==
    [l EXCEPT !.in_flight = @ + (IF suspended THEN 1 ELSE 0)]

IdleCycle ==
    [ran |-> FALSE, exit |-> "none", at |-> 0, snapshot |-> <<>>, served |-> <<>>,
     all_alerts |-> <<>>, attempts |-> <<>>,
     store_before |-> [c \in ChatIds |-> NoKey], client |-> FALSE,
     scrape |-> [constructed |-> FALSE, requested |-> 0, failed |-> 0],
     raised_at |-> NoSite, outcome |-> "none",
     suspended |-> FALSE, returned |-> PyNone, prev_scrape |-> NoTime]

\* The code of check_and_send_alerts from `scraper = WaterScraper()` on.
\* construct_ok: WaterScraper() returns (its _setup_browser does not raise);
\* g: what get_data did on the new instance
CycleFromScraper(active_users, locations, construct_ok, g, served, backend, transport) ==
    LET st0 == [users |-> users, store |-> store, attempts |-> <<>>]
    IN  IF ~construct_ok
        THEN CycleReport("error", active_users, <<>>, <<>>, st0)
        ELSE IF g.result = <<>>
        THEN CycleReport("no_alerts", active_users, served, g.result, st0)
        ELSE CycleReport("completed", active_users, served, g.result,
                 FanOut(PairsOf(locations, active_users, g.result), st0,
                        redis_client, backend, transport, now))

\* The code of check_and_send_alerts up to `scraper = WaterScraper()`: the
\* early returns
CycleEarlyReturn(active_users, locations) ==
    LET st0 == [users |-> users, store |-> store, attempts |-> <<>>]
    IN  IF ~bot THEN CycleReport("no_bot", <<>>, <<>>, <<>>, st0)
        ELSE IF active_users = <<>>
        THEN CycleReport("no_active_users", active_users, <<>>, <<>>, st0)
        ELSE CycleReport("no_locations", active_users, <<>>, <<>>, st0)

ReachesScraper(active_users, locations) ==
    bot /\ active_users # <<>> /\ locations # <<>>

AllOk == [c \in ChatIds |-> "ok"]
NoGetData ==
    [result |-> <<>>, cache |-> EmptyCache, hit |-> FALSE, gets |-> 0,
     requested |-> 0, failed |-> 0, yields |-> <<>>]

CycleDone(c, scrape) ==
    \E suspended \in {CycleSuspends(c.exit,
                        IF c.exit = "completed"
                        THEN PairsOf(LocationsOf(c.snapshot, {}), c.snapshot, c.all_alerts)
                        ELSE <<>>)} :
        /\ users' = c.users
        /\ store' = c.store
        /\ cycle' = [ran |-> TRUE, exit |-> c.exit, at |-> now, snapshot |-> c.snapshot,
                     served |-> c.served, all_alerts |-> c.all_alerts,
                     attempts |-> c.attempts, store_before |-> store,
                     client |-> redis_client, scrape |-> scrape,
                     raised_at |-> RaisedAt(c.exit),
                     outcome |-> CycleOutcome(RaisedAt(c.exit)),
                     suspended |-> suspended,
                     returned |-> CycleReturnValue(c.exit),
                     prev_scrape |-> LastScrape(cycle)]
        /\ loop' = Started(loop, suspended)
        /\ UNCHANGED <<rd, dl, unitVars, req, scraperVars, configVars, op, bot, redis_client>>

\* check_and_send_alerts, run to its end. The scraper is a new instance, with
\* an empty cache. What the run reads of its environment is chosen where it
\* reads it: the browser launch, the origin's pages, and for the fan-out the
\* Redis backend and the transport.
CheckAndSendAlerts ==
    \E db_ok \in BOOLEAN :
    \E active_users \in {ServiceGetActiveUsers(users, db_ok)} :
    \E locations \in {LocationsOf(active_users, {})} :
        IF ~ReachesScraper(active_users, locations)
        THEN \E c \in {CycleEarlyReturn(active_users, locations)} :
                 CycleDone(c, ScrapeReport(FALSE, NoGetData))
        ELSE \E construct_ok \in BOOLEAN :
             \E pages \in IF construct_ok THEN Origins ELSE {AllPages(PageEmpty)} :
             \E g \in {IF construct_ok
                       THEN GetDataResult(EmptyCache, base_url, cache_timeout, pages,
                                          1, hash_seed, now)
                       ELSE NoGetData} :
             \E served \in {IF construct_ok
                            THEN ServedFrom(base_url, 1, pages, hash_seed, now)
                            ELSE <<>>} :
             \E backend \in IF g.result # <<>> THEN Backends ELSE {"up"} :
             \E transport \in IF g.result # <<>> THEN [ChatIds -> Transports]
                              ELSE {AllOk} :
             \E c \in {CycleFromScraper(active_users, locations, construct_ok, g,
                                        served, backend, transport)} :
                 CycleDone(c, ScrapeReport(construct_ok, g))

\* One message.answer of cmd_check
CheckReply(kind, location, title) == [kind |-> kind, location |-> location, title |-> title]

RECURSIVE AlertReplies(_)
\* `for alert in alerts: await message.answer(...)`: one answer for every
\* record of the list, whatever its title
AlertReplies(alerts) ==
    IF alerts = <<>> THEN <<>>
    ELSE <<CheckReply("alert", NoLocation, Head(alerts).title)>>
             \o AlertReplies(Tail(alerts))

\* cmd_check: its answers, in order. construct_ok: WaterScraper() returns;
\* alerts: what get_data(location=user.location) returned
CheckReplies(row, construct_ok, alerts) ==
    IF ~row.exists \/ row.location = NoLocation
    THEN <<CheckReply("no_location", NoLocation, <<>>)>>
    ELSE <<CheckReply("checking", NoLocation, <<>>)>>
         \o (IF ~construct_ok THEN <<CheckReply("error", NoLocation, <<>>)>>
             ELSE IF alerts = <<>>
             THEN <<CheckReply("no_alerts", row.location, <<>>)>>
             ELSE AlertReplies(alerts))

IdleCheck ==
    [called |-> FALSE, chat_id |-> 0, location |-> NoLocation, constructed |-> FALSE,
     served |-> <<>>, replies |-> <<>>]

\* /check. The scraper is a new instance, with an empty cache; get_data
\* takes the location and does not use it (get_cache_key returns one key,
\* no statement of get_data reads `location`).
CmdCheck(chat_id) ==
    \E located \in {users[chat_id].exists /\ users[chat_id].location # NoLocation} :
    \E construct_ok \in IF located THEN BOOLEAN ELSE {FALSE} :
    \E pages \in IF construct_ok THEN Origins ELSE {AllPages(PageEmpty)} :
    \E g \in {IF construct_ok
              THEN GetDataResult(EmptyCache, base_url, cache_timeout, pages, 1,
                                 hash_seed, now)
              ELSE NoGetData} :
    \E served \in {IF construct_ok
                   THEN ServedFrom(base_url, 1, pages, hash_seed, now)
                   ELSE <<>>} :
        /\ chk' = [called |-> TRUE, chat_id |-> chat_id,
                   location |-> users[chat_id].location,
                   constructed |-> construct_ok, served |-> served,
                   replies |-> CheckReplies(users[chat_id], construct_ok, g.result)]
        /\ UNCHANGED <<rd, dl, loop, ex, tx, req, scraperVars, configVars, op, botVars>>

\* The process is stopped and started again: module state is lost, the users
\* table and Redis are kept, the new process salts str hashes anew and has
\* run no cycle yet
Restart ==
    /\ hash_seed' \in 1..MaxSeeds
    /\ bot' = FALSE
    /\ redis_client' = FALSE
    /\ loop' = IdleLoop
    /\ cycle' = IdleCycle
    /\ UNCHANGED <<rd, dl, unitVars, req, scraperVars, browser, base_url, op, users, store>>

\* The fields of the Settings class (pydantic, extra='ignore'): an attribute
\* of another name is not defined on `settings`
SettingsFields ==
    {"SESSION_SECRET_KEY", "TELEGRAM_BOT_TOKEN", "TELEGRAM_API_BASE_URL",
     "TELEGRAM_HTTP_TIMEOUT_TOTAL", "TELEGRAM_HTTP_TIMEOUT_CONNECT",
     "TELEGRAM_HTTP_TIMEOUT_SOCK_READ", "TELEGRAM_HTTP_CONNECTION_LIMIT",
     "TELEGRAM_HTTP_CONNECTION_LIMIT_PER_HOST", "TELEGRAM_HTTP_DNS_TTL",
     "TELEGRAM_HTTP_KEEPALIVE_TIMEOUT", "TELEGRAM_POLLING_INTERVAL",
     "TELEGRAM_POLLING_TIMEOUT", "TELEGRAM_POLLING_EXTRA_TIMEOUT",
     "TELEGRAM_POLLING_RETRY_DELAY", "TELEGRAM_PARSE_MODE",
     "TELEGRAM_DEFAULT_CHAT_ACTION", "TELEGRAM_WEBHOOK_URL",
     "TELEGRAM_WEBHOOK_PATH", "TELEGRAM_WEBHOOK_SECRET", "BASE_URL",
     "AVAILABLE_LOCATIONS", "WHITELIST_LOCATION", "REDIS_URL", "REDIS_ALERT_TTL",
     "POSTGRES_URL", "POSTGRES_ECHO", "HTTP_PROXY", "HTTPS_PROXY"}

\* check_and_send_alerts of main.py, the function on_startup schedules and
\* runs. After its bot test it raises before its first await in every run:
\* at WaterScraper(), or at settings.TARGET_LOCATION, which Settings does not
\* define, or (were it defined) at len() of the coroutine object that the
\* unawaited get_data call returns. Its fan-out (lines 84-110) is not reached.
MainCycleResult(trigger, botset, construct_ok) ==
    LET site == IF ~botset THEN NoSite
                ELSE IF ~construct_ok THEN SiteMainConstruct
                ELSE IF "TARGET_LOCATION" \notin SettingsFields THEN SiteMainTarget
                ELSE SiteMainLen
    IN  [ran |-> TRUE, trigger |-> trigger,
         exit |-> IF botset THEN "error" ELSE "no_bot",
         raised_at |-> site, outcome |-> CycleOutcome(site), suspended |-> FALSE]

\* on_startup: the Telegram session, the scheduler with the interval job, and
\* the first run of the cycle. No statement of it tests whether a run is in
\* progress.
OnStartup ==
    /\ ~loop.scheduler
    /\ bot' = TRUE
    /\ \E construct_ok \in BOOLEAN :
       \E m \in {MainCycleResult("startup", TRUE, construct_ok)} :
           loop' = [Started(loop, m.suspended) EXCEPT !.scheduler = TRUE, !.main = m]
    /\ UNCHANGED <<rd, dl, unitVars, req, scraperVars, configVars, op, users, redis_client, store, cycle>>

\* The scheduler runs the job `water_alert_check` when its interval is over
IntervalJob ==
    /\ loop.scheduler
    /\ \E construct_ok \in BOOLEAN :
       \E m \in {MainCycleResult("interval", bot, construct_ok)} :
           loop' = [Started(loop, m.suspended) EXCEPT !.main = m]
    /\ UNCHANGED <<rd, dl, unitVars, req, scraperVars, configVars, op, users, bot, redis_client, store, cycle>>

----------------------------------------------------------------------------
\* The state after construction, for the configurations given
InitRest(urls, timeouts) ==
    /\ req = IdleRequest
    /\ base_url \in urls
    /\ now = 0
    /\ cache = EmptyCache
    /\ cache_timeout \in timeouts
    /\ wrote = [k \in Keys |-> NeverWritten]
    /\ gd = IdleGetData
    /\ fb = IdleFallback
    /\ op = "init"
    /\ hash_seed \in 1..MaxSeeds
    /\ users = [c \in ChatIds |-> NoUser]
    /\ bot = FALSE
    /\ redis_client = FALSE
    /\ store = [c \in ChatIds |-> NoKey]
    /\ cycle = IdleCycle
    /\ rd = IdleRedis
    /\ dl = IdleDelivery
    /\ loop = IdleLoop
    /\ ex = IdleExtract
    /\ chk = IdleCheck
    /\ tx = IdleTx

InitWith(urls, warmups, timeouts) ==
    /\ browser \in {ConstructedBrowser(w) : w \in warmups}
    /\ InitRest(urls, timeouts)

InitScraper == InitWith(Urls, BOOLEAN, 1..MaxCacheTimeout)

NextFetch ==
    \/ \E url \in Urls, n \in 0..MaxRetriesBound :
          \E outs \in [1..n -> Outcomes] : MakeRequest(url, n, outs)
    \/ RequestDone

SpecFetch == InitWith(Urls, {TRUE}, {1}) /\ [][NextFetch]_vars

----------------------------------------------------------------------------
(* Claims about _make_request, checked under SpecFetch *)

AllBlocked(r) == \A i \in 1..r.max_retries : r.outs[i] = StatusOutcome(403)

\* C4: when every response is a 403, _make_request(url, max_retries = n) with
\* n >= 1 issues exactly n GETs and then raises the blocked error; it never
\* issues more and never returns a response.
C4_RetryBudget ==
    (req.called /\ req.max_retries >= 1 /\ AllBlocked(req)) =>
        /\ req.result.outcome = "raise"
        /\ req.result.exception = Exc(TxtForbidden \o req.url)
        /\ req.result.gets = req.max_retries

C4_Witness ==
    /\ req.called /\ req.max_retries = MaxRetriesBound /\ AllBlocked(req)
    /\ req.result.outcome = "raise" /\ req.result.gets = MaxRetriesBound

\* C5: between two consecutive attempts of one fetch separated by a 403, the
\* session is torn down and rebuilt: the retried request runs on another
\* session than the blocked one.
C5_RotationOnBlock ==
    req.called =>
        \A i \in 1..(Len(req.result.log) - 1) :
            req.result.log[i].out = StatusOutcome(403) =>
                req.result.log[i + 1].session # req.result.log[i].session

NonBlockFailure(out) ==
    \/ out.kind \in {"none", "error"}
    \/ out.kind = "status" /\ out.status >= 400 /\ out.status # 403

\* C6: an attempt that fails for any reason other than an HTTP 403 response
\* makes _make_request raise at once: it is the last GET of the call, whatever
\* the URL or the error text.
C6_OnlyBlockSignalsRetried ==
    req.called =>
        \A i \in 1..Len(req.result.log) :
            NonBlockFailure(req.result.log[i].out) =>
                (i = Len(req.result.log) /\ req.result.outcome = "raise")

\* C38: a _make_request call ends in one of two ways, for every max_retries
\* and every sequence of responses: it returns a response whose status is
\* below 400, or it raises; it never returns without a response.
C38_TwoOutcomes ==
    req.called =>
        \/ req.result.outcome = "raise"
        \/ /\ req.result.outcome = "return"
           /\ req.result.response.kind = "status"
           /\ req.result.response.status < 400

NextCache ==
    \/ Tick
    \/ \E pages \in Origins : GetData(pages)
    \/ \E key \in Keys : HandleScrapingFailure(key)

SpecCache == InitScraper /\ [][NextCache]_vars

\* C28: in every _make_request call the wait before attempt 0 is drawn from
\* [1 s, 3 s] and the wait before attempt a >= 1 from [3(a+1) s, 6(a+1) s];
\* after a 403 on attempt a that is not the last one a backoff drawn from
\* [2 * 2^a s, 4 * 2^a s] is waited, and no backoff is waited after the last
\* attempt of the budget.
C28_DelaySchedule ==
    req.called =>
        \A i \in 1..Len(req.result.log) :
            LET e == req.result.log[i]
                a == i - 1
            IN  /\ e.attempt = a
                /\ e.delay = IF a = 0 THEN [lo |-> 1000, hi |-> 3000]
                              ELSE [lo |-> 3000 * (a + 1), hi |-> 6000 * (a + 1)]
                /\ (e.out = StatusOutcome(403) /\ a < req.max_retries - 1) =>
                       e.backoff = [lo |-> 2000 * (2 ^ a), hi |-> 4000 * (2 ^ a)]
                /\ a = req.max_retries - 1 => e.backoff = [lo |-> 0, hi |-> 0]

C28_Witness ==
    /\ req.called /\ req.max_retries >= 3 /\ Len(req.result.log) = req.max_retries
    /\ AllBlocked(req)
    /\ req.result.log[2].delay = [lo |-> 6000, hi |-> 12000]
    /\ req.result.log[2].backoff = [lo |-> 4000, hi |-> 8000]
    /\ req.result.log[req.max_retries].backoff = [lo |-> 0, hi |-> 0]

----------------------------------------------------------------------------
(* Claims about the result cache, checked under SpecCache *)

\* C7: an entry written at time T under cache timeout t is valid at every time
\* strictly before T + t and invalid at and after T + t; a key with no entry
\* is invalid.
C7_CacheValidity ==
    \A k \in Keys :
        IsCacheValid(k) <=> (wrote[k].written /\ now < wrote[k].at + cache_timeout)

C7_Witness ==
    /\ wrote[KeyAll].written /\ now = wrote[KeyAll].at + cache_timeout
    /\ ~IsCacheValid(KeyAll) /\ ~IsCacheValid("other")

\* C8: _handle_scraping_failure(key) returns the data of the entry for key when
\* one exists, whatever its age, and the placeholder set when none exists.
C8_FallbackChain ==
    op = "handle_scraping_failure" =>
        fb.result = IF cache[fb.key].present THEN cache[fb.key].data
                    ELSE GetFallbackData(now)

C8_Witness ==
    /\ op = "handle_scraping_failure" /\ cache[fb.key].present
    /\ now >= cache[fb.key].timestamp + cache_timeout
    /\ fb.result = cache[fb.key].data

\* C9: in every reachable state of the scraper the fallback for a key is a
\* non-empty list.
C9_FallbackNonEmpty ==
    \A k \in Keys : HandleScrapingFailureResult(cache, k, now) # <<>>

\* C10: a get_data call in which page fetches fail leaves the existing cache
\* entry (data and timestamp) unchanged.
C10_CacheReplacedOnlyBySuccess ==
    (op = "get_data" /\ gd.failed > 0 /\ gd.entry_before.present) =>
        cache[KeyAll] = gd.entry_before

----------------------------------------------------------------------------
(* The bot: handlers, services and the alert cycle *)

Selections == AvailableLocations \cup {<<"X">>}

Next ==
    \/ \E chat_id \in ChatIds : CmdSubscribe(chat_id)
    \/ \E chat_id \in ChatIds, sel \in Selections : HandleLocationSelection(chat_id, sel)
    \/ \E chat_id \in ChatIds : CmdUnsubscribe(chat_id)
    \/ GetSession
    \/ RedisConnect
    \/ Restart
    \/ CheckAndSendAlerts

\* one configuration of the scraper settings
Init == InitWith({UrlPlain}, {TRUE}, {1})

Spec == Init /\ [][Next]_vars

----------------------------------------------------------------------------
(* Claims about the alert cycle, checked under Spec *)

AttemptsOf(chat_id, alert) ==
    {i \in 1..Len(cycle.attempts) :
        /\ cycle.attempts[i].chat_id = chat_id
        /\ cycle.attempts[i].title = alert.title
        /\ cycle.attempts[i].story_id = alert.story_id}

\* C3: in a cycle a delivery attempt is made for (subscriber, record) only if
\* the subscriber was in the active snapshot with a location and the record's
\* title contains that location; and for every such pair, the record being one
\* the origin served in this cycle and not already marked sent, exactly one
\* delivery attempt is made in the cycle.
C3_FanOutFiltering ==
    cycle.ran =>
        /\ \A i \in 1..Len(cycle.attempts) :
              \E j \in 1..Len(cycle.snapshot) :
                  /\ cycle.snapshot[j].chat_id = cycle.attempts[i].chat_id
                  /\ cycle.snapshot[j].location # NoLocation
                  /\ Contains(cycle.attempts[i].title, cycle.snapshot[j].location)
        /\ \A j \in 1..Len(cycle.snapshot), k \in 1..Len(cycle.served) :
              ( /\ cycle.snapshot[j].location # NoLocation
                /\ Contains(cycle.served[k].title, cycle.snapshot[j].location)
                /\ ~SIsMember(cycle.store_before, cycle.snapshot[j].chat_id,
                              cycle.served[k].story_id, cycle.at) )
              => Cardinality(AttemptsOf(cycle.snapshot[j].chat_id, cycle.served[k])) = 1

\* C11: when the fetches of a cycle fail, the cycle takes the result cache's
\* fallback for its records (the entry of the scraper's cache if there is
\* one, otherwise the placeholder set) and goes on to the fan-out over them: it
\* does not end with an empty record set.
C11_DegradeInsteadOfAbort ==
    (cycle.ran /\ cycle.scrape.constructed /\ cycle.scrape.failed = PageCap) =>
        /\ cycle.all_alerts # <<>>
        /\ cycle.all_alerts = HandleScrapingFailureResult(EmptyCache, KeyAll, cycle.at)
        /\ cycle.exit = "completed"

\* C14: has_alert_been_sent is False for a pair of a subscriber with no key,
\* and False when the client is not connected or the backend call fails; so
\* a cycle run while the client is not connected attempts the delivery of
\* every record the origin served to every snapshot subscriber whose location
\* its title contains.
C14_FailOpenDedup ==
    /\ \A c \in ChatIds, f \in AlertIds :
          /\ ~store[c].exists => ~HasAlertBeenSent(redis_client, "up", store, c, f, now)
          /\ ~redis_client => ~HasAlertBeenSent(redis_client, "up", store, c, f, now)
          /\ ~HasAlertBeenSent(redis_client, "down", store, c, f, now)
    /\ (cycle.ran /\ ~cycle.client) =>
          \A j \in 1..Len(cycle.snapshot), k \in 1..Len(cycle.served) :
              ( /\ cycle.snapshot[j].location # NoLocation
                /\ Contains(cycle.served[k].title, cycle.snapshot[j].location) )
              => AttemptsOf(cycle.snapshot[j].chat_id, cycle.served[k]) # {}

----------------------------------------------------------------------------
(* RedisService called directly *)

NextDedup ==
    \/ Tick
    \/ RedisConnect
    \/ \E alert_id \in AlertIds, backend \in {"up", "down"} :
          HasAlertBeenSentCall(alert_id, backend)
    \/ \E alert_id \in AlertIds, backend \in Backends :
          MarkAlertAsSentCall(alert_id, backend)

SpecDedup == Init /\ [][NextDedup]_vars

\* C12: once mark_alert_as_sent(s, f) has returned True, calling it again
\* leaves the store as it is, and has_alert_been_sent(s, f) is true until the
\* TTL counted from that call has run out and false from then on.
C12_DedupIdempotence ==
    (rd.mark.called /\ rd.mark.ok) =>
        /\ now = rd.mark.at =>
              MarkAlertAsSent(redis_client, "up", store, CallChat, rd.mark.alert_id,
                              now).store = store
        /\ HasAlertBeenSent(redis_client, "up", store, CallChat, rd.mark.alert_id, now)
              <=> now < rd.mark.at + AlertTtl

C12_Witness ==
    /\ rd.mark.called /\ rd.mark.ok /\ rd.mark.again
    /\ now >= rd.mark.at + AlertTtl
    /\ op = "has_alert_been_sent" /\ rd.has.backend = "up"
    /\ rd.has.alert_id = rd.mark.alert_id /\ ~rd.has.result

\* C13: every pair (s, f) expires TTL after its own insertion:
\* has_alert_been_sent(s, f) is true only if mark_alert_as_sent(s, f) was
\* called within the last TTL, whatever was marked for other fingerprints of s.
\* Stated for the stores in which every EXPIRE of the calls took effect.
C13_PerPairExpiry ==
    store[CallChat].expires_at # NoTime =>
        \A f \in AlertIds :
            HasAlertBeenSent(redis_client, "up", store, CallChat, f, now) =>
                (rd.called_at[f] # NoTime /\ now < rd.called_at[f] + AlertTtl)

\* C37: every key of the store that exists carries an expiry, at most the TTL
\* ahead, whatever failed in the calls before (the EXPIRE of a call whose SADD
\* was done included), and a mark_alert_as_sent call returns True exactly
\* when the fingerprint is in the set of the subscriber after it.
C37_BoundedDedupMemory ==
    /\ \A c \in ChatIds :
           LiveKey(store, c, now) =>
               /\ store[c].expires_at # NoTime
               /\ store[c].expires_at - now <= AlertTtl
    /\ (rd.mark.called /\ op = "mark_alert_as_sent") =>
           (rd.mark.ok <=> SIsMember(store, CallChat, rd.mark.alert_id, now))

----------------------------------------------------------------------------
(* BotService.send_alert_to_user called directly, and the handlers *)

NextDelivery ==
    \/ \E chat_id \in ChatIds : CmdSubscribe(chat_id)
    \/ \E chat_id \in ChatIds, sel \in Selections : HandleLocationSelection(chat_id, sel)
    \/ \E chat_id \in ChatIds : CmdUnsubscribe(chat_id)
    \/ GetSession
    \/ \E chat_id \in ChatIds, transport \in Transports : SendAlert(chat_id, transport)

SpecDelivery == Init /\ [][NextDelivery]_vars

\* C17: a delivery that fails with the error of a recipient who blocked the
\* bot sets the subscriber's is_active to False, any other outcome of a
\* delivery leaves is_active as it was, and is_active goes from False to True
\* only in a /subscribe of that subscriber.
C17_BlockedRecipient ==
    [][ /\ \A c \in ChatIds, t \in Transports :
              SendAlert(c, t) =>
                  IF t = "blocked" THEN ~users'[c].is_active
                  ELSE users'[c].is_active = users[c].is_active
        /\ \A c \in ChatIds :
              (users[c].exists /\ ~users[c].is_active /\ users'[c].is_active)
                  => CmdSubscribe(c) ]_vars

C17_Witness ==
    /\ op = "send_alert_to_user" /\ dl.called /\ dl.transport = "blocked"
    /\ dl.active_before /\ ~dl.success
    /\ ~users[dl.chat_id].is_active

----------------------------------------------------------------------------
(* The runs of the cycle on the event loop of one process *)

\* one subscriber is enough to take a run to every exit
NextLoop ==
    \/ CmdSubscribe(CallChat)
    \/ \E sel \in Selections : HandleLocationSelection(CallChat, sel)
    \/ OnStartup
    \/ IntervalJob
    \/ CheckAndSendAlerts
    \/ Restart

SpecLoop == Init /\ [][NextLoop]_vars

C29_CacheHit ==
    ( /\ op = "get_data" /\ gd.called
      /\ gd.entry_before.present
      /\ now - gd.entry_before.timestamp < cache_timeout ) =>
        /\ gd.hit
        /\ gd.result = gd.entry_before.data
        /\ gd.requested = 0 /\ gd.gets = 0
        /\ cache[KeyAll] = gd.entry_before

C29_Witness ==
    /\ op = "get_data" /\ gd.called /\ gd.hit
    /\ gd.entry_before.present /\ now > gd.entry_before.timestamp
    /\ gd.requested = 0
    /\ cache[KeyAll].timestamp = gd.entry_before.timestamp

\* C22: a get_data call that scrapes requests at most PageCap pages, and
\* requests no page after one that gave zero records: the pagination ends at
\* the cap or at the first page without extractable panels.
C22_PaginationTerminates ==
    (gd.called /\ ~gd.hit) =>
        /\ gd.requested <= PageCap
        /\ gd.requested = Len(gd.yields)
        /\ \A i \in 1..(Len(gd.yields) - 1) : gd.yields[i] # 0

\* C30: a run of the cycle that reaches get_data less than cache_timeout
\* after an earlier run of the same process wrote the scrape result to the
\* cache is served from that entry: it requests no page of the origin.
C30_CachePersistsAcrossCycles ==
    ( /\ cycle.ran /\ cycle.scrape.constructed
      /\ cycle.prev_scrape # NoTime
      /\ cycle.at - cycle.prev_scrape < cache_timeout ) =>
        cycle.scrape.requested = 0

\* C27: a run of the cycle returns a report to its caller, whose
\* notificationsSent is the number of successful deliveries of the run and
\* whose recordsFound is the number of records the scrape gave.
C27_CycleReport ==
    cycle.ran =>
        /\ ~cycle.returned.is_none
        /\ cycle.returned.notificationsSent =
               Cardinality({i \in 1..Len(cycle.attempts) : cycle.attempts[i].success})
        /\ cycle.returned.recordsFound = Len(cycle.all_alerts)

----------------------------------------------------------------------------
(* The construction of a scraper instance, step by step, and fetches on it *)

InitSession == browser = NoSession /\ InitRest({UrlPlain}, {1})

NextSession ==
    \/ \E launch_ok \in BOOLEAN : SetupBrowser(launch_ok)
    \/ \E ok \in BOOLEAN : WarmUpSession(ok)
    \/ FetchOnInstance
    \/ RequestDone

SpecSession == InitSession /\ [][NextSession]_vars

\* C24: the session of a scraper instance goes NO_SESSION -> WARMING -> READY
\* and takes no other step; it is READY after exactly one warm-up GET, whether
\* that GET succeeded or failed; and on a READY session a fetch can be issued,
\* after a failed warm-up as after a successful one.
C24_SessionStateMachine ==
    /\ [][ browser'.state # browser.state =>
               \/ browser.state = "NO_SESSION" /\ browser'.state = "WARMING"
               \/ browser.state = "WARMING" /\ browser'.state = "READY" ]_vars
    /\ [][ (browser.state = "WARMING" /\ browser' # browser) =>
               (browser'.state = "READY" /\ browser'.warmups = 1) ]_vars
    /\ [](browser.state = "READY" => browser.warmups = 1)
    /\ []((browser.state = "READY" /\ ~req.called) => ENABLED FetchOnInstance)

C24_Witness ==
    /\ browser.state = "READY" /\ browser.warmups = 1 /\ ~browser.warm_ok
    /\ op = "make_request" /\ req.called /\ req.result.gets >= 1
    /\ req.result.outcome = "return"

----------------------------------------------------------------------------
(* The handlers of the chats over time *)

NextLocation ==
    \/ Tick
    \/ \E chat_id \in ChatIds : CmdSubscribe(chat_id)
    \/ \E chat_id \in ChatIds, sel \in Selections : HandleLocationSelection(chat_id, sel)
    \/ \E chat_id \in ChatIds : CmdUnsubscribe(chat_id)
    \/ \E chat_id \in ChatIds : CmdChangeLocation(chat_id)

SpecLocation == Init /\ [][NextLocation]_vars

\* C25: a step that changes the location of a subscriber who had one, after an
\* earlier change, comes at least 24 hours after that earlier change,
\* whatever /location commands and selection callbacks came before.
C25_LocationRateLimit ==
    [][ \A c \in ChatIds :
            ( /\ users[c].location # NoLocation
              /\ users'[c].location # users[c].location
              /\ users[c].last_location_changed # NoTime )
            => now - users[c].last_location_changed >= Day ]_vars

\* C26: for every active subscriber, /unsubscribe clears is_active and keeps
\* the location, and /subscribe after it sets is_active again, keeps the
\* location and answers without the location prompt; /subscribe of an active
\* subscriber with a location changes no stored field.
C26_SubscriptionRoundTrip ==
    \A c \in ChatIds :
        /\ (users[c].exists /\ users[c].is_active) =>
              LET off == UnsubscribeResult(users, c)
                  on == SubscribeResult(off, c)
              IN  /\ ~off[c].is_active
                  /\ off[c].location = users[c].location
                  /\ on[c].is_active
                  /\ on[c].location = users[c].location
                  /\ SubscribeReply(off[c]) # "location_prompt"
        /\ (users[c].exists /\ users[c].is_active /\ users[c].location # NoLocation) =>
              SubscribeResult(users, c) = users

----------------------------------------------------------------------------
(* The handlers that read and write the users table, at one time of the clock *)

NextRegistry ==
    \/ \E chat_id \in ChatIds : CmdSubscribe(chat_id)
    \/ \E chat_id \in ChatIds, sel \in Selections : HandleLocationSelection(chat_id, sel)
    \/ \E chat_id \in ChatIds : CmdUnsubscribe(chat_id)
    \/ \E chat_id \in ChatIds : CmdChangeLocation(chat_id)

SpecRegistry == Init /\ [][NextRegistry]_vars

\* C35: the stored location of every subscriber is unset or a key of
\* AVAILABLE_LOCATIONS, whatever /subscribe, /location, /unsubscribe commands
\* and selection callbacks came before, and a callback that carries another
\* value leaves the users table as it is.
C35_LocationDomain ==
    \A c \in ChatIds :
        /\ users[c].location = NoLocation \/ users[c].location \in AvailableLocations
        /\ \A sel \in Selections \ AvailableLocations :
               LocationSelectionResult(users, c, sel, now) = users

C35_Witness ==
    /\ users[1].exists /\ ~users[1].is_active
    /\ users[1].location = LocDB /\ users[1].last_location_changed # NoTime
    /\ users[2].exists /\ users[2].location = NoLocation
    /\ \E sel \in Selections \ AvailableLocations :
           LocationSelectionResult(users, 1, sel, now) = users

----------------------------------------------------------------------------
(* UserService called directly *)

NextTx ==
    \E opname \in RepositoryOps, chat_id \in ChatIds, value \in BOOLEAN :
        UserServiceCall(opname, chat_id, value)

SpecTx == Init /\ [][NextTx]_vars

\* C36: when the repository method of a UserService call raised, the session
\* of the call was rolled back and then closed and was never committed, and
\* the users table is as it was before the call.
C36_RollbackOnError ==
    (tx.called /\ tx.site # "none") =>
        /\ \A i \in 1..Len(tx.trace) : tx.trace[i] # "commit"
        /\ \E i \in 1..Len(tx.trace) : \E j \in (i + 1)..Len(tx.trace) :
               tx.trace[i] = "rollback" /\ tx.trace[j] = "close"
        /\ ~tx.changed

----------------------------------------------------------------------------
(* The manual check of one chat *)

NextCheck ==
    \/ \E chat_id \in ChatIds : CmdSubscribe(chat_id)
    \/ \E chat_id \in ChatIds, sel \in Selections : HandleLocationSelection(chat_id, sel)
    \/ \E chat_id \in ChatIds : CmdCheck(chat_id)

SpecCheck == Init /\ [][NextCheck]_vars

\* C34: in the answers of a /check that got its scraper, every alert message
\* has a title containing the subscriber's stored location, and the answer
\* 'no alerts found for <location>' is sent exactly when no record the origin
\* served has the location in its title.
C34_CheckOwnLocation ==
    (chk.called /\ chk.location # NoLocation /\ chk.constructed) =>
        /\ \A i \in 1..Len(chk.replies) :
               chk.replies[i].kind = "alert"
                   => Contains(chk.replies[i].title, chk.location)
        /\ (\E i \in 1..Len(chk.replies) : chk.replies[i].kind = "no_alerts")
              <=> ~(\E j \in 1..Len(chk.served) :
                        TitleHasLocation(chk.served[j], chk.location))

----------------------------------------------------------------------------
(* The link loop of get_data and _extract_item_data, called directly *)

\* the markup of LinkA with other whitespace in the link text
LinkA2 == [LinkA EXCEPT !.text = <<"A", "l", "e", "r", "t", " ", "\n", " ">> \o LocDA]
LinkNoPanel == [LinkA EXCEPT !.panel = FALSE]
LinkNoBody == [LinkB EXCEPT !.body_wrapper = FALSE]
LinkNoPanelBody == [LinkB EXCEPT !.panel_body = FALSE]
LinkRaises == [LinkA EXCEPT !.raises = TRUE]

\* The accordion links of the pages tried
LinkLists ==
    { <<>>, <<LinkA>>, <<LinkA, LinkB>>, <<LinkB, LinkA2>>, <<LinkNoPanel, LinkA>>,
      <<LinkA, LinkNoBody, LinkB>>, <<LinkRaises, LinkB>>, <<LinkNoPanelBody, LinkA>>,
      <<LinkA, LinkRaises, LinkNoPanel, LinkB>>, <<LinkNoPanel, LinkNoBody>> }

NextExtract ==
    \/ Tick
    \/ Restart
    \/ \E links \in LinkLists : ExtractPage(links)

SpecExtract == Init /\ [][NextExtract]_vars

\* C21: a record extracted now has the story_id that the first record with the
\* same normalized title and message had, whenever and from whatever markup
\* that one was extracted: the story_id depends on title and message only.
C21_FingerprintDeterminism ==
    ex.called =>
        \A i \in 1..Len(ex.result) : \A x \in ex.seen :
            (x.title = ex.result[i].title /\ x.message = ex.result[i].message)
                => x.story_id = ex.result[i].story_id

Extractable(link) == link.panel /\ link.body_wrapper /\ ~link.raises

\* C23: the link loop gives one record for every link that has an enclosing
\* panel and a collapsible body and whose extraction does not raise, in page
\* order, and nothing for the other links: a link that cannot be extracted
\* neither ends the loop nor adds a record.
C23_PerItemIsolation ==
    ex.called =>
        LET extractable == SelectSeq(ex.links, Extractable)
        IN  /\ Len(ex.result) = Len(extractable)
            /\ \A k \in 1..Len(extractable) :
                  /\ ex.result[k].some
                  /\ ex.result[k].title = CollapseWhitespace(Strip(extractable[k].text))

C23_Witness ==
    /\ ex.called /\ op = "extract"
    /\ ex.links = <<LinkA, LinkRaises, LinkNoPanel, LinkB>>
    /\ Len(ex.result) = 2
    /\ ex.result[1].title = TitleA /\ ex.result[2].title = TitleB

====
